---- MODULE Spec2Model ----
(***************************************************************************)
(* Model of validate_data.py: the validator/fixer for the "stops" JSON.     *)
(*                                                                         *)
(* A JSON value is a tagged record (number, string or null).  A string is  *)
(* a sequence of Unicode scalar values (code points), so that the regex    *)
(* range of remove_emojis, str.strip, the substring tests on link and      *)
(* datetime.fromisoformat are computed on characters as the code does.     *)
(* An item (one stop) is a function from field names to JSON values.       *)
(***************************************************************************)
EXTENDS Integers, Sequences, FiniteSets, TLC

\* ------------------------------------------------------------------ bounds
MaxRows == 2
MaxRuns == 2

\* ------------------------------------------------------------ JSON values
JNum(n) == [t |-> "num", n |-> n, s |-> <<>>]
JStr(s) == [t |-> "str", n |-> 0, s |-> s]
JNull == [t |-> "null", n |-> 0, s |-> <<>>]

\* isinstance(v, str)
IsStr(v) == v.t = "str"

REQUIRED_FIELDS ==
  <<"number", "name", "lat", "lon", "arrival", "departure", "duration",
    "distance", "type", "link", "season">>

\* "User to research"
PLACEHOLDER ==
  <<85, 115, 101, 114, 32, 116, 111, 32, 114, 101, 115, 101, 97, 114, 99, 104>>

\* "http"
HTTP == <<104, 116, 116, 112>>

MAX_LINK_LEN == 200
LAT_LIMIT == 90
LON_LIMIT == 180

\* --------------------------------------------------------- str operations
\* `sub in s` on Python strings
Contains(s, sub) ==
  \E k \in 0..(Len(s) - Len(sub)) : SubSeq(s, k + 1, k + Len(sub)) = sub

\* the characters str.strip() removes (str.isspace)
IsSpace(c) ==
  \/ c \in 9..13
  \/ c \in 28..32
  \/ c \in {133, 160, 5760, 8232, 8233, 8239, 8287, 12288}
  \/ c \in 8192..8202

\* text.strip()
strip(s) ==
  LET keep == {k \in 1..Len(s) : ~IsSpace(s[k])}
      lo == CHOOSE k \in keep : \A j \in keep : k <= j
      hi == CHOOSE k \in keep : \A j \in keep : k >= j
  IN IF keep = {} THEN <<>> ELSE SubSeq(s, lo, hi)

\* the character class [\U00010000-\U0010ffff]
IsSupplementary(c) == c >= 65536 /\ c <= 1114111

\* remove_emojis(text): emoji_pattern.sub('', text).  The except branch is
\* unreachable for a str argument, the only kind main passes.
remove_emojis(text) == SelectSeq(text, LAMBDA c : ~IsSupplementary(c))

\* --------------------------------------------------------------- float()
IsDigit(c) == c >= 48 /\ c <= 57

RECURSIVE DigitsVal(_)
DigitsVal(s) ==
  IF s = <<>> THEN 0
  ELSE 10 * DigitsVal(SubSeq(s, 1, Len(s) - 1)) + (s[Len(s)] - 48)

AllDigits(s) == s # <<>> /\ \A k \in 1..Len(s) : IsDigit(s[k])

\* float() of the stripped text b of a str: an optionally signed decimal
\* integer literal, ValueError otherwise
float_of_text(b) ==
  IF b # <<>> /\ b[1] = 45 /\ AllDigits(Tail(b))
    THEN [ok |-> TRUE, val |-> 0 - DigitsVal(Tail(b))]
  ELSE IF b # <<>> /\ b[1] = 43 /\ AllDigits(Tail(b))
    THEN [ok |-> TRUE, val |-> DigitsVal(Tail(b))]
  ELSE IF AllDigits(b) THEN [ok |-> TRUE, val |-> DigitsVal(b)]
  ELSE [ok |-> FALSE, val |-> 0]

\* float(v): a number converts to itself, a str is stripped and read, None
\* raises TypeError.  ok = FALSE stands for the raised exception.
float(v) ==
  IF v.t = "num" THEN [ok |-> TRUE, val |-> v.n]
  ELSE IF v.t = "str" THEN float_of_text(strip(v.s))
  ELSE [ok |-> FALSE, val |-> 0]

\* ------------------------------------------------- datetime.fromisoformat
NoDate == [ok |-> FALSE, aware |-> FALSE, min |-> 0]

IsLeap(y) == (y % 4 = 0) /\ ((y % 100 # 0) \/ (y % 400 = 0))

DaysInMonth(y, m) ==
  IF m = 2 THEN (IF IsLeap(y) THEN 29 ELSE 28)
  ELSE IF m \in {4, 6, 9, 11} THEN 30 ELSE 31

RECURSIVE DaysBeforeMonth(_, _)
DaysBeforeMonth(y, m) ==
  IF m <= 1 THEN 0 ELSE DaysBeforeMonth(y, m - 1) + DaysInMonth(y, m - 1)

\* date.toordinal(): days since 0001-01-01, counting from 1
Ordinal(y, m, d) ==
  LET p == y - 1
  IN 365 * p + (p \div 4) - (p \div 100) + (p \div 400)
       + DaysBeforeMonth(y, m) + d

\* the date part YYYY-MM-DD at s[1..10]
DateShape(s) ==
  /\ AllDigits(SubSeq(s, 1, 4)) /\ s[5] = 45
  /\ AllDigits(SubSeq(s, 6, 7)) /\ s[8] = 45
  /\ AllDigits(SubSeq(s, 9, 10))

\* HH:MM at s[k..k+4]
ClockShape(s, k) ==
  /\ AllDigits(SubSeq(s, k, k + 1)) /\ s[k + 2] = 58
  /\ AllDigits(SubSeq(s, k + 3, k + 4))
  /\ DigitsVal(SubSeq(s, k, k + 1)) < 24
  /\ DigitsVal(SubSeq(s, k + 3, k + 4)) < 60

\* the year, month and day written at s[1..10]
DatePart(s) ==
  [y |-> DigitsVal(SubSeq(s, 1, 4)), m |-> DigitsVal(SubSeq(s, 6, 7)),
   d |-> DigitsVal(SubSeq(s, 9, 10))]

\* p is a date of the calendar (MINYEAR is 1)
ValidDate(p) ==
  p.y >= 1 /\ p.m \in 1..12 /\ p.d >= 1 /\ p.d <= DaysInMonth(p.y, p.m)

\* the minutes HH:MM at s[k..k+4] stands for
ClockMinutes(s, k) ==
  60 * DigitsVal(SubSeq(s, k, k + 1)) + DigitsVal(SubSeq(s, k + 3, k + 4))

\* the value of s once its date part p is known to be well formed: day is
\* the minute count at the start of that day
IsoValue(s, day) ==
  IF Len(s) = 10
    THEN [ok |-> TRUE, aware |-> FALSE, min |-> day]
  ELSE IF Len(s) = 16 /\ ClockShape(s, 12)
    THEN [ok |-> TRUE, aware |-> FALSE, min |-> day + ClockMinutes(s, 12)]
  ELSE IF Len(s) = 22 /\ ClockShape(s, 12) /\ s[17] = 43 /\ ClockShape(s, 18)
    THEN [ok |-> TRUE, aware |-> TRUE,
          min |-> day + ClockMinutes(s, 12) - ClockMinutes(s, 18)]
  ELSE IF Len(s) = 22 /\ ClockShape(s, 12) /\ s[17] = 45 /\ ClockShape(s, 18)
    THEN [ok |-> TRUE, aware |-> TRUE,
          min |-> day + ClockMinutes(s, 12) + ClockMinutes(s, 18)]
  ELSE NoDate

IsoDate(s, p) ==
  IF ValidDate(p) THEN IsoValue(s, 1440 * Ordinal(p.y, p.m, p.d)) ELSE NoDate

\* datetime.fromisoformat(s) on the forms YYYY-MM-DD, YYYY-MM-DD?HH:MM and
\* YYYY-MM-DD?HH:MM(+|-)HH:MM (? any one character); every other string of
\* the model's inputs raises ValueError (NoDate).  min is the minute count
\* the comparison uses: local time for a naive value, UTC for an aware one.
fromisoformat(s) ==
  IF Len(s) >= 10 /\ DateShape(s) THEN IsoDate(s, DatePart(s)) ELSE NoDate

\* parse_date(s): None (NoDate) on any exception, a non-str argument included
parse_date(v) == IF IsStr(v) THEN fromisoformat(v.s) ELSE NoDate

\* ------------------------------------------------------------ diagnostics
\* one printed line: the row it is about (0 for a line of the whole run),
\* its text, and for the missing-fields line the printed list of names
Diag(row, msg) == [row |-> row, msg |-> msg, names |-> <<>>]
MissingDiag(row, names) == [row |-> row, msg |-> "missing fields", names |-> names]

\* item.get(f, default)
Get(item, f, default) == IF f \in DOMAIN item THEN item[f] ELSE default

\* ------------------------------------------------------ the per-row checks
\* The locals of one iteration of the loop: the item (mutated in place),
\* the value of `link` once read, the lines printed, the checks that set
\* row_ok = False (row_ok is fails = {}), and whether an exception escaped.
RowStart(item) ==
  [item |-> item, link |-> JNull, diags |-> <<>>, fails |-> {}, fault |-> FALSE]

\* row_ok = False, set by check c after printing line
Failed(st, c, line) ==
  [st EXCEPT !.diags = Append(@, line), !.fails = @ \cup {c}]

Printed(st, line) == [st EXCEPT !.diags = Append(@, line)]

\* a variant that stops at the first absent field
missing_fields_first(item) ==
  SubSeq(SelectSeq(REQUIRED_FIELDS, LAMBDA f : f \notin DOMAIN item), 1, 1)

\* missing = [f for f in REQUIRED_FIELDS if f not in item]
missing_fields(item) == SelectSeq(REQUIRED_FIELDS, LAMBDA f : f \notin DOMAIN item)

\* check 1: completeness
check_missing(st, i) ==
  IF missing_fields(st.item) # <<>>
  THEN Failed(st, 1, MissingDiag(i, missing_fields(st.item)))
  ELSE st

lat_in_range(lat) == 0 - LAT_LIMIT <= lat /\ lat <= LAT_LIMIT
lon_in_range(lon) == 0 - LON_LIMIT <= lon /\ lon <= LON_LIMIT

check_lat(st, i, lat) ==
  IF ~lat_in_range(lat) THEN Failed(st, 2, Diag(i, "lat out of range")) ELSE st

check_lon(st, i, lon) ==
  IF ~lon_in_range(lon) THEN Failed(st, 2, Diag(i, "lon out of range")) ELSE st

\* the try block once lat and lon have been converted: an exception from
\* either float() leaves the block for the except clause
coords_block(st, i, lat, lon) ==
  IF ~lat.ok \/ ~lon.ok
  THEN Failed(st, 2, Diag(i, "lat/lon not numeric"))
  ELSE check_lon(check_lat(st, i, lat.val), i, lon.val)

\* check 2: coordinates
check_coords(st, i) ==
  coords_block(st, i, float(Get(st.item, "lat", JNum(0))),
                      float(Get(st.item, "lon", JNum(0))))

\* `arrival > departure` on two datetimes raises TypeError when exactly one
\* of them carries a UTC offset
compare_raises(a, d) == a.aware # d.aware

\* a variant that assigns the two fields one after the other
swap_dates_sequential(item, arrival_raw, departure_raw) ==
  [item EXCEPT !["arrival"] = departure_raw, !["departure"] = departure_raw]

\* item["arrival"], item["departure"] = departure_raw, arrival_raw
swap_dates(item, arrival_raw, departure_raw) ==
  [item EXCEPT !["arrival"] = departure_raw, !["departure"] = arrival_raw]

\* the if statement of check 3, the two dates parsed into arrival, departure
dates_block(st, i, fix, arrival_raw, departure_raw, arrival, departure) ==
  IF ~(arrival.ok /\ departure.ok) THEN st
  ELSE IF compare_raises(arrival, departure) THEN [st EXCEPT !.fault = TRUE]
  ELSE IF ~(arrival.min > departure.min) THEN st
  ELSE IF fix
  THEN [Printed(Printed(st, Diag(i, "arrival is after departure")),
                Diag(i, "swapping arrival/departure"))
          EXCEPT !.item = swap_dates(@, arrival_raw, departure_raw)]
  ELSE Failed(st, 3, Diag(i, "arrival is after departure"))

dates_parsed(st, i, fix, arrival_raw, departure_raw) ==
  dates_block(st, i, fix, arrival_raw, departure_raw,
              parse_date(arrival_raw), parse_date(departure_raw))

\* check 3: dates
check_dates(st, i, fix) ==
  IF st.fault THEN st
  ELSE dates_parsed(st, i, fix, Get(st.item, "arrival", JStr(<<>>)),
                    Get(st.item, "departure", JStr(<<>>)))

\* link = item.get("link", "")
read_link(st) ==
  IF st.fault THEN st ELSE [st EXCEPT !.link = Get(st.item, "link", JStr(<<>>))]

is_placeholder(link) == IsStr(link) /\ Contains(link.s, PLACEHOLDER)

\* a variant with the length test off by one
is_suspicious_from_limit(link) ==
  IsStr(link) /\ ~Contains(link.s, HTTP) /\ Len(link.s) >= MAX_LINK_LEN

is_suspicious(link) ==
  IsStr(link) /\ ~Contains(link.s, HTTP) /\ Len(link.s) > MAX_LINK_LEN

\* a variant that leaves the link in place
clear_link_skipped(item) == item

\* item["link"] = ""
clear_link(item) == [item EXCEPT !["link"] = JStr(<<>>)]

\* check 4: placeholder text in link
check_placeholder(st, i, fix) ==
  IF st.fault \/ ~is_placeholder(st.link) THEN st
  ELSE IF fix
  THEN [Printed(Printed(st, Diag(i, "placeholder in link field")),
                Diag(i, "cleared placeholder link"))
          EXCEPT !.item = clear_link(@)]
  ELSE Failed(st, 4, Diag(i, "placeholder in link field"))

\* check 5: suspicious link, tested on the link value read before check 4
check_suspicious(st, i, fix) ==
  IF st.fault \/ ~is_suspicious(st.link) THEN st
  ELSE IF fix
  THEN [Printed(st, Diag(i, "suspicious link content")) EXCEPT !.item = clear_link(@)]
  ELSE Failed(st, 5, Diag(i, "suspicious link content"))

\* a variant that does not strip
clean_text_unstripped(s) == remove_emojis(s)

\* cleaned_v = remove_emojis(v).strip()
clean_text(s) == strip(remove_emojis(s))

\* for k, v in list(item.items()): if isinstance(v, str): item[k] = cleaned_v
normalize_item(item) ==
  [k \in DOMAIN item |->
     IF IsStr(item[k]) THEN JStr(clean_text(item[k].s)) ELSE item[k]]

\* step 6: text normalization, if fix
normalize(st, fix) ==
  IF st.fault \/ ~fix THEN st ELSE [st EXCEPT !.item = normalize_item(@)]

\* One iteration of the loop over the rows, up to cleaned.append(item).
process_row(item, i, fix) ==
  normalize(
    check_suspicious(
      check_placeholder(
        read_link(
          check_dates(check_coords(check_missing(RowStart(item), i), i), i, fix)),
        i, fix),
      i, fix),
    fix)

\* ------------------------------------------------------------- the inputs
\* n copies of the character c
Rep(c, n) == [k \in 1..n |-> c]

Date0701 == JStr(<<50, 48, 50, 54, 45, 48, 55, 45, 48, 49>>)
Date0702 == JStr(<<50, 48, 50, 54, 45, 48, 55, 45, 48, 50>>)
Date0705 == JStr(<<50, 48, 50, 54, 45, 48, 55, 45, 48, 53>>)
\* " 2026-07-05"
Date0705Padded == JStr(<<32, 50, 48, 50, 54, 45, 48, 55, 45, 48, 53>>)
\* "2026-07-02T00:00+00:00"
Date0702Utc ==
  JStr(<<50, 48, 50, 54, 45, 48, 55, 45, 48, 50, 84, 48, 48, 58, 48, 48,
         43, 48, 48, 58, 48, 48>>)
\* "2026-07-02T01:00+02:00", i.e. 2026-07-01 23:00 UTC
Date0702Plus2 ==
  JStr(<<50, 48, 50, 54, 45, 48, 55, 45, 48, 50, 84, 48, 49, 58, 48, 48,
         43, 48, 50, 58, 48, 48>>)

\* the record of good_data in tests/run_validation_tests.py
GoodItem ==
  [number |-> JNum(1), name |-> JStr(<<65>>), lat |-> JNum(45), lon |-> JNum(12),
   arrival |-> Date0701, departure |-> Date0702,
   duration |-> JStr(<<49, 32, 100, 97, 121>>),
   distance |-> JStr(<<49, 48, 32, 107, 109>>),
   type |-> JStr(<<77, 97, 114, 105, 110, 97>>),
   link |-> JStr(<<104, 116, 116, 112, 115, 58, 47, 47, 101, 120, 97, 109,
                   112, 108, 101, 46, 99, 111, 109>>),
   season |-> JStr(<<115, 117, 109, 109, 101, 114>>)]

\* the record of bad_data in tests/run_validation_tests.py
BadItem ==
  [GoodItem EXCEPT !.name = JStr(<<66>>), !.lat = JNum(95),
                   !.arrival = Date0705, !.departure = Date0701,
                   !.link = JStr(PLACEHOLDER)]

Without(item, fields) == [f \in DOMAIN item \ fields |-> item[f]]

\* The records the datasets are built from: the two records of the test
\* harness and variations of the good one, each in one aspect.
Items ==
  { GoodItem,
    BadItem,
    Without(GoodItem, {"season"}),
    Without(GoodItem, {"lat", "arrival", "link"}),
    [GoodItem EXCEPT !.lat = JNum(95)],
    [GoodItem EXCEPT !.lat = JNum(0 - 91), !.lon = JNum(200)],
    \* lon "abc"
    [GoodItem EXCEPT !.lat = JNum(95), !.lon = JStr(<<97, 98, 99>>)],
    [GoodItem EXCEPT !.lat = JNull, !.arrival = JNull, !.link = JNull],
    [GoodItem EXCEPT !.arrival = Date0705, !.departure = Date0701],
    [GoodItem EXCEPT !.arrival = Date0705Padded, !.departure = Date0701],
    [GoodItem EXCEPT !.departure = Date0702Utc],
    [GoodItem EXCEPT !.arrival = Date0702Utc, !.departure = Date0702Plus2],
    \* "TBD: User to research!"
    [GoodItem EXCEPT !.link = JStr(<<84, 66, 68, 58, 32>> \o PLACEHOLDER \o <<33>>)],
    \* "User to " + U+1F600 + "research"
    [GoodItem EXCEPT !.link = JStr(<<85, 115, 101, 114, 32, 116, 111, 32, 128512,
                                     114, 101, 115, 101, 97, 114, 99, 104>>)],
    [GoodItem EXCEPT !.link = JStr(Rep(120, MAX_LINK_LEN + 1))],
    [GoodItem EXCEPT !.link = JStr(Rep(120, MAX_LINK_LEN))],
    [GoodItem EXCEPT !.link = JStr(HTTP \o Rep(120, MAX_LINK_LEN))],
    \* name " A" + U+1F600 + " ", lon "12"
    [GoodItem EXCEPT !.name = JStr(<<32, 65, 128512, 32>>),
                     !.lon = JStr(<<49, 50>>)] }

RECURSIVE Lists(_)
Lists(n) ==
  IF n = 0 THEN {<<>>}
  ELSE LET shorter == Lists(n - 1)
       IN shorter \cup {Append(l, it) : l \in {s \in shorter : Len(s) = n - 1},
                                        it \in Items}

\* the Datasets: every list of at most MaxRows of the records
Datasets == Lists(MaxRows)

\* what is stored at a path: nothing, a JSON document that is a list of
\* records, or a JSON document whose top level is not a list
NoFile == [kind |-> "absent", rows |-> <<>>]
ListFile(rows) == [kind |-> "list", rows |-> rows]
OtherFile == [kind |-> "other", rows |-> <<>>]

\* paths are numbered by the ".fixed" they carry: 0 is the original path,
\* k + 1 is path k with ".fixed" put before the suffix
Paths == 0..MaxRuns

\* ------------------------------------------------------------------ state
VARIABLES
  fs,        \* the file system: path -> what is stored there
  path,      \* main's argument: the path of the run
  fix,       \* main's argument fix
  inplace,   \* main's argument inplace
  pc,        \* where main is: start, loop, report, done (returned), fault (raised)
  input,     \* the document as read by json.loads, before any row is touched
  data,      \* the list being iterated, its items mutated in place
  i,         \* the row number of the next iteration, from 1
  cleaned,   \* the list cleaned
  ok,        \* the flag ok
  rowFails,  \* for each row entered, the checks that set row_ok = False
  diags,     \* the lines printed so far
  status,    \* the value main returned; -1 until it returns
  run,       \* the number of the run (invocation of the tool)
  prev       \* the previous run: its arguments and its outcome

vars ==
  <<fs, path, fix, inplace, pc, input, data, i, cleaned, ok, rowFails, diags,
    status, run, prev>>

\* no previous run
NoRun ==
  [fix |-> FALSE, pc |-> "none", status |-> 0 - 1, input |-> NoFile,
   wrote |-> FALSE, out |-> 0, diags |-> <<>>]

\* out_path = p if inplace else p.with_name(p.stem + ".fixed" + p.suffix)
OutPath == IF inplace THEN path ELSE path + 1

\* main is about to be called on the original path, which holds a Dataset,
\* a document that is not a list, or nothing
Init ==
  /\ \E f \in {ListFile(d) : d \in Datasets} \cup {OtherFile, NoFile} :
       fs = [p \in Paths |-> IF p = 0 THEN f ELSE NoFile]
  /\ path = 0
  /\ fix \in BOOLEAN
  /\ inplace \in BOOLEAN
  /\ pc = "start"
  /\ input = NoFile
  /\ data = <<>>
  /\ i = 1
  /\ cleaned = <<>>
  /\ ok = TRUE
  /\ rowFails = <<>>
  /\ diags = <<>>
  /\ status = 0 - 1
  /\ run = 1
  /\ prev = NoRun

\* if not p.exists(): print ERROR, return 1
FileNotFound ==
  /\ pc = "start"
  /\ fs[path].kind = "absent"
  /\ diags' = Append(diags, Diag(0, "ERROR: file not found"))
  /\ status' = 1
  /\ pc' = "done"
  /\ UNCHANGED <<fs, path, fix, inplace, input, data, i, cleaned, ok, rowFails,
                 run, prev>>

\* if not isinstance(data, list): print ERROR, return 1
NotAList ==
  /\ pc = "start"
  /\ fs[path].kind = "other"
  /\ diags' = Append(diags, Diag(0, "ERROR: top-level JSON is not a list"))
  /\ status' = 1
  /\ pc' = "done"
  /\ UNCHANGED <<fs, path, fix, inplace, input, data, i, cleaned, ok, rowFails,
                 run, prev>>

\* data = json.loads(p.read_text()); ok = True; cleaned = []
Load ==
  /\ pc = "start"
  /\ fs[path].kind = "list"
  /\ input' = fs[path]
  /\ data' = fs[path].rows
  /\ ok' = TRUE
  /\ cleaned' = <<>>
  /\ i' = 1
  /\ pc' = "loop"
  /\ UNCHANGED <<fs, path, fix, inplace, rowFails, diags, status, run, prev>>

\* a variant in which a row that passes sets ok back to True
end_row_last_wins(r) ==
  /\ diags' = diags \o r.diags
  /\ rowFails' = Append(rowFails, r.fails)
  /\ IF r.fault
     THEN /\ pc' = "fault"
          /\ UNCHANGED <<data, cleaned, ok, i>>
     ELSE /\ data' = [data EXCEPT ![i] = r.item]
          /\ cleaned' = Append(cleaned, r.item)
          /\ ok' = (r.fails = {})
          /\ i' = i + 1
          /\ pc' = "loop"

\* the end of an iteration whose locals are r: cleaned.append(item) and
\* `if not row_ok: ok = False`, or the exception leaving main
end_row(r) ==
  /\ diags' = diags \o r.diags
  /\ rowFails' = Append(rowFails, r.fails)
  /\ IF r.fault
     THEN /\ pc' = "fault"
          /\ UNCHANGED <<data, cleaned, ok, i>>
     ELSE /\ data' = [data EXCEPT ![i] = r.item]
          /\ cleaned' = Append(cleaned, r.item)
          /\ ok' = (ok /\ r.fails = {})
          /\ i' = i + 1
          /\ pc' = "loop"

\* one iteration of `for i, item in enumerate(data, start=1)`
LoopBody ==
  /\ pc = "loop"
  /\ i <= Len(data)
  /\ end_row(process_row(data[i], i, fix))
  /\ UNCHANGED <<fs, path, fix, inplace, input, status, run, prev>>

\* after the loop: if fix and cleaned: write cleaned to out_path
Write ==
  /\ pc = "loop"
  /\ i > Len(data)
  /\ IF fix /\ cleaned # <<>>
     THEN /\ fs' = [fs EXCEPT ![OutPath] = ListFile(cleaned)]
          /\ diags' = Append(diags, Diag(0, "Wrote cleaned output"))
     ELSE UNCHANGED <<fs, diags>>
  /\ pc' = "report"
  /\ UNCHANGED <<path, fix, inplace, input, data, i, cleaned, ok, rowFails,
                 status, run, prev>>

\* if ok: print passed, return 0; else: print failed, return 1
Report ==
  /\ pc = "report"
  /\ IF ok
     THEN /\ diags' = Append(diags, Diag(0, "Validation passed"))
          /\ status' = 0
     ELSE /\ diags' = Append(diags, Diag(0, "Validation failed"))
          /\ status' = 1
  /\ pc' = "done"
  /\ UNCHANGED <<fs, path, fix, inplace, input, data, i, cleaned, ok, rowFails,
                 run, prev>>

\* the run is over: main returned or raised
Terminated == pc \in {"done", "fault"}

\* the run wrote its output file
Wrote == pc \in {"report", "done"} /\ fix /\ cleaned # <<>>

\* The tool is run again, on the original path or on a path an earlier run
\* may have written, with any flags.
Rerun ==
  /\ Terminated
  /\ run < MaxRuns
  /\ prev' = [fix |-> fix, pc |-> pc, status |-> status, input |-> input,
              wrote |-> Wrote, out |-> OutPath, diags |-> diags]
  /\ run' = run + 1
  /\ path' \in {p \in Paths : p <= run}
  /\ fix' \in BOOLEAN
  /\ inplace' \in BOOLEAN
  /\ pc' = "start"
  /\ input' = NoFile
  /\ data' = <<>>
  /\ i' = 1
  /\ cleaned' = <<>>
  /\ ok' = TRUE
  /\ rowFails' = <<>>
  /\ diags' = <<>>
  /\ status' = 0 - 1
  /\ UNCHANGED fs

\* one run of the tool
Next == FileNotFound \/ NotAList \/ Load \/ LoopBody \/ Write \/ Report

Spec == Init /\ [][Next]_vars

\* runs of the tool one after the other, on the files the earlier ones left
NextRerun == Next \/ Rerun

SpecRerun == Init /\ [][NextRerun]_vars

\* ------------------------------------------------------- terms of the claims
Required == {REQUIRED_FIELDS[j] : j \in 1..Len(REQUIRED_FIELDS)}

\* main read a Dataset (a list of records)
Loaded == input.kind = "list"

\* the Dataset as it was read
Rows == input.rows

\* the lines printed about row k with text msg
Lines(k, msg) == {j \in 1..Len(diags) : diags[j].row = k /\ diags[j].msg = msg}

HasLine(k, msg) == Lines(k, msg) # {}

\* no line about any row has been printed
NoRowLines == \A j \in 1..Len(diags) : diags[j].row = 0

\* the Dataset the run wrote
Output == fs[OutPath].rows

\* how the two dates of the item stand: "unparsed" if one of them does not
\* parse, "mixed" if one has a UTC offset and the other has none, "after" if
\* arrival > departure, "ordered" if arrival <= departure
DateOrder(item) ==
  LET a == parse_date(Get(item, "arrival", JNull))
      d == parse_date(Get(item, "departure", JNull))
  IN IF ~(a.ok /\ d.ok) THEN "unparsed"
     ELSE IF a.aware # d.aware THEN "mixed"
     ELSE IF a.min > d.min THEN "after"
     ELSE "ordered"

\* lat (lon) is a number outside its range
LatOut(item) ==
  /\ "lat" \in DOMAIN item
  /\ item.lat.t = "num"
  /\ (item.lat.n < 0 - 90 \/ item.lat.n > 90)

LonOut(item) ==
  /\ "lon" \in DOMAIN item
  /\ item.lon.t = "num"
  /\ (item.lon.n < 0 - 180 \/ item.lon.n > 180)

\* link is a string containing "User to research"
PlaceholderLink(item) ==
  /\ "link" \in DOMAIN item
  /\ item.link.t = "str"
  /\ \E k \in 1..Len(item.link.s) :
       /\ k + 15 <= Len(item.link.s)
       /\ SubSeq(item.link.s, k, k + 15) = PLACEHOLDER

\* the record satisfies the invariants of a valid Record
ValidRecord(item) ==
  /\ Required \subseteq DOMAIN item
  /\ item.lat.t = "num" /\ 0 - 90 <= item.lat.n /\ item.lat.n <= 90
  /\ item.lon.t = "num" /\ 0 - 180 <= item.lon.n /\ item.lon.n <= 180
  /\ DateOrder(item) # "after"
  /\ ~PlaceholderLink(item)
  /\ item.link.t = "str" => (Contains(item.link.s, HTTP) \/ Len(item.link.s) <= 200)

\* the Dataset passes validation without fix: no row raises or is failed
PassesNonFix(rows) ==
  \A k \in 1..Len(rows) :
    /\ ~process_row(rows[k], k, FALSE).fault
    /\ process_row(rows[k], k, FALSE).fails = {}

\* out is text with leading and trailing whitespace removed, and nothing else
TrimOf(out, text) ==
  \E lo \in 1..(Len(text) + 1) : \E hi \in 0..Len(text) :
    /\ out = SubSeq(text, lo, hi)
    /\ \A j \in 1..(lo - 1) : IsSpace(text[j])
    /\ \A j \in (hi + 1)..Len(text) : IsSpace(text[j])

\* text without its characters of code point 0x10000 and above
BasicPlane(text) == SelectSeq(text, LAMBDA c : c < 65536)

\* the value equals the input value but for whitespace trimming of a string
SameButTrimmed(out, in) ==
  \/ out = in
  \/ out.t = "str" /\ in.t = "str" /\ TrimOf(out.s, in.s)

\* the value equals the input value, but that a string has lost its
\* supplementary characters and then all leading and trailing whitespace
SameButCleaned(out, in) ==
  \/ in.t # "str" /\ out = in
  \/ /\ in.t = "str" /\ out.t = "str"
     /\ TrimOf(out.s, BasicPlane(in.s))
     /\ out.s # <<>> => ~IsSpace(out.s[1]) /\ ~IsSpace(out.s[Len(out.s)])

\* --------------------------------------------------------------- the claims

\* C1: whenever main returns on a Dataset, with any fix and inplace, it
\* returns 0 if no check set row_ok = False on any row and 1 otherwise, and
\* in fix mode check 3 has failed no row.
C1_ReturnContract ==
  (pc = "done" /\ Loaded) =>
    /\ Len(rowFails) = Len(Rows)
    /\ status \in {0, 1}
    /\ status = 0 <=> \A k \in 1..Len(Rows) : rowFails[k] = {}
    /\ fix => \A k \in 1..Len(Rows) : 3 \notin rowFails[k]

C1_Witness ==
  /\ pc = "done" /\ Loaded /\ Len(Rows) = 2
  /\ rowFails[1] # {} /\ rowFails[2] = {}
  /\ status = 1

\* C2: on a Dataset of valid records, validation without fix prints no line
\* about a row and returns 0; it can raise only on a record whose two dates
\* parse one with and one without a UTC offset.
C2_ValidPasses ==
  (Loaded /\ ~fix /\ \A k \in 1..Len(Rows) : ValidRecord(Rows[k])) =>
    /\ NoRowLines
    /\ pc = "done" => status = 0
    /\ pc = "fault" => \E k \in 1..Len(Rows) : DateOrder(Rows[k]) = "mixed"

C2_Witness ==
  /\ pc = "done" /\ Loaded /\ ~fix /\ Len(Rows) = 2
  /\ \A k \in 1..Len(Rows) : ValidRecord(Rows[k])
  /\ Rows[1] # Rows[2]
  /\ status = 0

\* C3: every row entered whose lat is a number outside [-90, 90] has a
\* latitude out-of-range line and is failed by check 2, whatever its other
\* fields; likewise for lon outside [-180, 180].
C3_OutOfRangeReported ==
  Loaded =>
    \A k \in 1..Len(rowFails) :
      /\ LatOut(Rows[k]) => HasLine(k, "lat out of range") /\ 2 \in rowFails[k]
      /\ LonOut(Rows[k]) => HasLine(k, "lon out of range") /\ 2 \in rowFails[k]

\* C4: a row with required fields absent has exactly one missing-fields
\* line, which names exactly the absent fields, and is failed, so that main
\* returns 1; a row with none absent has no such line.
C4_MissingFields ==
  Loaded =>
    \A k \in 1..Len(rowFails) :
      LET missing == Required \ DOMAIN Rows[k]
          lines == Lines(k, "missing fields")
      IN IF missing # {}
         THEN /\ Cardinality(lines) = 1
              /\ \A j \in lines :
                   /\ {diags[j].names[n] : n \in 1..Len(diags[j].names)} = missing
                   /\ Len(diags[j].names) = Cardinality(missing)
              /\ 1 \in rowFails[k]
              /\ pc = "done" => status = 1
         ELSE lines = {} /\ 1 \notin rowFails[k]

C4_Witness ==
  /\ pc = "done" /\ Loaded /\ status = 1
  /\ \E k \in 1..Len(Rows) :
       /\ Cardinality(Required \ DOMAIN Rows[k]) >= 2
       /\ Cardinality(Lines(k, "missing fields")) = 1

C6_PlaceholderLink ==
  Loaded =>
    \A k \in 1..Len(cleaned) :
      PlaceholderLink(Rows[k]) =>
        /\ HasLine(k, "placeholder in link field")
        /\ ~fix => 4 \in rowFails[k]
        /\ fix => /\ 4 \notin rowFails[k] /\ 5 \notin rowFails[k]
                  /\ cleaned[k].link = JStr(<<>>)
                  /\ pc \in {"report", "done"} =>
                       /\ fs[OutPath].kind = "list"
                       /\ Output[k].link = JStr(<<>>)

C6_Witness ==
  /\ pc = "done" /\ Loaded /\ fix /\ status = 0
  /\ \E k \in 1..Len(Rows) :
       /\ PlaceholderLink(Rows[k])
       /\ Output[k].link = JStr(<<>>)

\* the run is a run with fix on the file that the previous run, a run with
\* fix on an already-valid Dataset, wrote
SecondFixRun ==
  /\ run >= 2 /\ Loaded /\ fix /\ path = prev.out
  /\ prev.fix /\ prev.pc = "done" /\ prev.wrote
  /\ PassesNonFix(prev.input.rows)

\* C7: fix mode is idempotent: a second run with fix, on the output of a run
\* with fix on an already-valid Dataset, swaps no dates, clears no link and
\* leaves every record as it read it.
C7_FixIdempotent ==
  (SecondFixRun /\ Terminated) =>
    /\ pc = "done"
    /\ NoRowLines
    /\ cleaned = Rows

C9_NeverAborts ==
  Loaded =>
    /\ pc # "fault"
    /\ pc = "done" =>
         /\ status \in {0, 1}
         /\ Len(rowFails) = Len(Rows)
         /\ diags[Len(diags)].msg \in {"Validation passed", "Validation failed"}

\* the run is a run without fix on the file that the previous run, a run
\* with fix that returned 0, wrote
ValidationOfRepair ==
  /\ run >= 2 /\ Loaded /\ ~fix /\ path = prev.out
  /\ prev.fix /\ prev.pc = "done" /\ prev.status = 0 /\ prev.wrote

\* C10: the Dataset written by a run with fix that returned 0 passes
\* validation without fix: status 0 and no line about a row.
C10_RepairComplete ==
  (ValidationOfRepair /\ Terminated) =>
    /\ pc = "done" /\ status = 0
    /\ NoRowLines

====
